---- MODULE Spec2Model ----
(***************************************************************************)
(* Disaster-recovery daemon for the point-of-sale data store               *)
(* (src/src/index.ts).  The file holds three deployments of the same       *)
(* DisasterRecoveryManager:                                                *)
(*   "container" lines   1-249  polling loop, zenity gate, docker exec     *)
(*   "native"    lines 251-457  polling loop, zenity gate, local binaries  *)
(*   "electron"  lines 459-886  screensaver events, password gate,         *)
(*                              "latest" resolved from the directory       *)
(* One deployment runs at a time; Init picks it.  The external dump and    *)
(* restore binaries and the MongoDB driver are modelled by their outcome   *)
(* (exit status / resolved or rejected promise) only; what mongorestore    *)
(* --drop does to the documents of the restored database, the backups      *)
(* collection among them, is outside the model.                            *)
(***************************************************************************)
EXTENDS Integers, Sequences, FiniteSets, TLC

VARIABLES
    variant,        \* which of the three deployments is running
    now,            \* wall clock, in ticks (TicksPerSecond ticks per second)
    lastSale,       \* createdAt of the newest document of the sales collection
    records,        \* the backups collection, in insertion order (index = _id)
    files,          \* entries of HOST_BACKUP_DIR
    alertTriggered, \* DisasterRecoveryManager.alertTriggered (electron)
    ssActive,       \* last value delivered by org.gnome.ScreenSaver ActiveChanged
    dropped,        \* triggers that returned at the guard
    cycles,         \* one entry per loop iteration / onInactivityDetected call
    proc,           \* the process: "starting", "running", "exited"
    exitCode,       \* its exit status once it has exited
    idleTriggers,   \* screensaver triggers that arrived with no cycle in flight
    openConns       \* MongoClient connections connected and not yet closed

vars == <<variant, now, lastSale, records, files, alertTriggered, ssActive,
          dropped, cycles, proc, exitCode, idleTriggers, openConns>>

(***************************************************************************)
(* Bounds of the model.                                                    *)
(***************************************************************************)
MaxCycles == 3
MaxClock == 4
MaxWrong == 3
MaxDropped == 1
MaxStored == 2
TicksPerSecond == 2

(***************************************************************************)
(* Configuration (CONFIG objects).                                         *)
(***************************************************************************)
Variants == {"container", "native", "electron"}
Polling(v) == v \in {"container", "native"}

\* CONFIG.CHECK_INTERVAL: 300000 ms in the source, scaled to one second of the
\* model clock (what matters is that it is not shorter than a second)
CHECK_INTERVAL == TicksPerSecond

HOST_BACKUP_DIR(v) ==
    IF v = "container" THEN "~/backups" ELSE "~/backups/tocgamedb"

\* the literal compared with the entered password
Secret == "yosi"

NoSale == (0 - CHECK_INTERVAL) - 1
NoDate == 0 - 1

(***************************************************************************)
(* Pure helpers.                                                           *)
(***************************************************************************)
\* format(new Date(), "yyyyMMdd-HHmmss"): the clock truncated to the second
FormatTimestamp(t) == t \div TicksPerSecond

\* the entry createBackup leaves in HOST_BACKUP_DIR: `backup-<ts>` (a dump
\* directory) in the container deployment, `backup-<ts>.gz` otherwise
BackupFileName(v, t) ==
    [base |-> FormatTimestamp(t), ext |-> IF v = "container" THEN "" ELSE ".gz"]

\* join(HOST_BACKUP_DIR, name)
JoinPath(dir, name) == [dir |-> dir, base |-> name.base, ext |-> name.ext]

\* the document createBackup inserts (`by` is the inserting cycle, a history
\* field that the program does not store)
NewBackupRecord(path, t, c) ==
    [path |-> path, createdAt |-> t, type |-> "emergency", status |-> "created",
     by |-> c]

\* checkRecentSales: countDocuments({createdAt: {$gte: now - CHECK_INTERVAL}}) > 0.
\* Only the newest sale decides whether the count is positive.
HasRecentSales(last, t) == last >= t - CHECK_INTERVAL

(***************************************************************************)
(* Confirmation gates.                                                     *)
(***************************************************************************)
\* What can happen to the zenity question: the operator presses "Yes" (has
\* problems), presses "No", closes the dialog, or zenity cannot run at all.
ZenityOutcomes == {"yes", "no", "dismiss", "error"}

\* exit status of `zenity --question`
ZenityExit(o) ==
    CASE o = "yes" -> 0
      [] o = "no" -> 1
      [] o = "dismiss" -> 1
      [] OTHER -> 255

\* showDialog of the polling deployments: execSync throws on a non-zero exit
\* status, the catch returns false
ShowDialogSimple(o) == ZenityExit(o) = 0

\* showCustomAlert resolves with the button's string or 'closed'
AlertResponses == {"no-problem", "has-problem", "closed"}

\* showPasswordPrompt resolves with the text typed, or null
PromptResults ==
    {[isNull |-> TRUE, text |-> ""]} \cup
    {[isNull |-> FALSE, text |-> s] : s \in {"yosi", "1234"}}

\* (variant of AfterPassword that takes any text for the secret)
AfterPasswordAnyText(p) ==
    IF p.isNull THEN "alert" ELSE "return_true"

\* (variant of AfterPassword that takes a cancelled prompt for the secret)
AfterPasswordCancelMeansYes(p) ==
    IF p.isNull \/ p.text = Secret THEN "return_true" ELSE "msgbox"

\* one turn of the inner while(true) of showDialog: where control goes with
\* the prompt's result
AfterPassword(p) ==
    IF p.isNull THEN "alert"
    ELSE IF p.text = Secret THEN "return_true"
    ELSE "msgbox"

\* one turn of the outer while(true) of showDialog
AfterAlert(r) ==
    IF r = "no-problem" THEN "return_false"
    ELSE IF r = "has-problem" THEN "password"
    ELSE "alert"

\* the catch of showDialog (electron): any error makes the gate return true
ShowDialogCatch == TRUE

(***************************************************************************)
(* Dispatch and the record store.                                          *)
(***************************************************************************)
\* (variant of Dispatch with the two branches exchanged)
DispatchInverted(v, hasProblems) ==
    IF hasProblems THEN "backup_dump"
    ELSE IF v = "electron" THEN "restore_fs"
    ELSE "restore_select"

\* `if (!hasProblems) createBackup() else restoreFromLatestBackup()`
Dispatch(v, hasProblems) ==
    IF ~hasProblems THEN "backup_dump"
    ELSE IF v = "electron" THEN "restore_fs"
    ELSE "restore_select"

\* (variant of FindLatestCreated without the status filter)
FindLatestAnyStatus(recs) ==
    {i \in DOMAIN recs :
        \A j \in DOMAIN recs : recs[j].createdAt <= recs[i].createdAt}

\* (variant of FindLatestCreated with the sort order {createdAt: 1})
FindOldestCreated(recs) ==
    {i \in DOMAIN recs :
        /\ recs[i].status = "created"
        /\ \A j \in DOMAIN recs :
              recs[j].status = "created" => recs[i].createdAt <= recs[j].createdAt}

\* findOne({status: "created"}, {sort: {createdAt: -1}}): the documents the
\* query may return.  MongoDB leaves the order of equal sort keys open, so
\* every newest match is a possible answer.
FindLatestCreated(recs) ==
    {i \in DOMAIN recs :
        /\ recs[i].status = "created"
        /\ \A j \in DOMAIN recs :
              recs[j].status = "created" => recs[j].createdAt <= recs[i].createdAt}

\* (variant of UpdateRestoredById whose filter matches no document)
UpdateMatchesNothing(recs, i) == recs

\* updateOne({_id: i}, {$set: {status: "restored"}})
UpdateRestoredById(recs, i) ==
    [recs EXCEPT ![i].status = "restored"]

\* updateOne({path: p}, {$set: {status: "restored"}}, {upsert: true}): the
\* first match is updated; without a match a document holding only the
\* filter and the $set fields is inserted
UpsertRestoredByPath(recs, p, c) ==
    LET hits == {i \in DOMAIN recs : recs[i].path = p} IN
    IF hits # {}
    THEN LET i == CHOOSE i \in hits : \A j \in hits : i <= j
         IN [recs EXCEPT ![i].status = "restored"]
    ELSE Append(recs, [path |-> p, createdAt |-> NoDate, type |-> "absent",
                       status |-> "restored", by |-> c])

\* readdirSync(dir).filter(endsWith(".gz")).sort().reverse(): the candidates,
\* and [0] of the result.  Names are `backup-` plus a fixed-width timestamp,
\* so the lexical order is the order of the timestamps.
GzFiles(fs) == {f \in fs : f.ext = ".gz"}
LatestFile(fs) ==
    CHOOSE f \in GzFiles(fs) : \A g \in GzFiles(fs) : g.base <= f.base

(***************************************************************************)
(* Control flow of the handlers.                                           *)
(***************************************************************************)
\* createBackup: the steps of the try block run in order, the first throw
\* leaves it.  Steps of the dump: "dump", then (container) "copy", "cleanup".
DumpSteps(v) ==
    IF v = "container" THEN <<"dump", "copy", "cleanup">> ELSE <<"dump">>

\* restoreFromLatestBackup: external steps
RestoreSteps(v) ==
    IF v = "container" THEN <<"mkdir", "copy", "restore", "cleanup">>
    ELSE <<"restore">>

StepIndex(steps, s) == CHOOSE k \in DOMAIN steps : steps[k] = s
StepSet(steps) == {steps[k] : k \in DOMAIN steps}

\* whether step s ran to completion when the sequence failed at failAt
\* ("none": nothing failed)
StepDone(steps, s, failAt) ==
    \/ failAt = "none"
    \/ StepIndex(steps, s) < StepIndex(steps, failAt)

\* (variant of AfterDump that goes on after a failed step)
AfterDumpSwallowsFailure(failAt) == "backup_record"

\* where createBackup continues after the external steps
AfterDump(failAt) == IF failAt = "none" THEN "backup_record" ELSE "failed"

\* (variant of AfterRestoreTool that goes on after a failed step)
AfterRestoreToolSwallowsFailure(v, failAt) ==
    IF v = "electron" THEN "restore_upsert" ELSE "restore_update"

\* where restoreFromLatestBackup continues after the external steps
AfterRestoreTool(v, failAt) ==
    IF failAt # "none" THEN "failed"
    ELSE IF v = "electron" THEN "restore_upsert"
    ELSE "restore_update"

\* (variant of GuardBlocks without the early return)
GuardNeverBlocks(guard) == FALSE

\* onInactivityDetected: `if (this.alertTriggered) return;`
GuardBlocks(guard) == guard

\* onInactivityDetected: the guard after the engine call.  The reset is the
\* statement after the awaits, so a rejected engine promise skips it.
GuardAfterEngine(v, guard, ok) ==
    IF v = "electron" /\ ok THEN FALSE ELSE guard

(***************************************************************************)
(* Cycles.                                                                 *)
(***************************************************************************)
NoInput == [kind |-> "none", text |-> ""]
NoFile == [base |-> NoDate, ext |-> ""]
NoPath == [dir |-> "", base |-> NoDate, ext |-> ""]

NewCycle(pc) ==
    [pc |-> pc,             \* position of the handler
     op |-> "none",         \* engine dispatched: "backup" / "restore"
     decided |-> FALSE,     \* the gate has returned
     hasProblems |-> FALSE, \* what it returned
     chanFail |-> FALSE,    \* the confirmation channel failed in this cycle
     input |-> NoInput,     \* last answer given to the gate
     wrong |-> 0,           \* consecutive wrong passwords
     name |-> NoFile,       \* archive name of createBackup
     sel |-> 0,             \* _id selected by findOne
     selFile |-> NoFile,    \* file selected from the directory
     toolPath |-> NoPath,   \* archive handed to the restore tool
     tool |-> "na",         \* outcome of the external steps: "ok" / "fail"
     dbRestored |-> FALSE,  \* mongorestore itself completed
     err |-> "none"]        \* error the cycle ended with

Active(c) ==
    cycles[c].pc \in {"dialog", "alert", "password", "msgbox", "backup_dump",
                      "backup_record", "restore_select", "restore_tool",
                      "restore_update", "restore_fs", "restore_upsert"}
Ended(c) == cycles[c].pc \in {"done", "failed", "skipped"}

\* ensureBackupDir: mkdirSync runs only when the directory does not exist,
\* and may throw
EnsureBackupDir(exists, mkdirOk) == exists \/ mkdirOk

\* the catch of the entry point: process.exit(1) in the polling deployments,
\* app.quit() (exit status 0) in the electron deployment
FatalExitCode(v) == IF Polling(v) THEN 1 ELSE 0

NoExit == 0 - 1

Init ==
    /\ variant \in Variants
    /\ now = 0
    /\ lastSale = NoSale
    /\ records = <<>>
    /\ files = {}
    /\ alertTriggered = FALSE
    /\ ssActive = FALSE
    /\ dropped = 0
    /\ cycles = <<>>
    /\ proc = "starting"
    /\ exitCode = NoExit
    /\ idleTriggers = 0
    /\ openConns = 0

(***************************************************************************)
(* Actions.                                                                *)
(***************************************************************************)
OpOf(pc) ==
    CASE pc = "backup_dump" -> "backup"
      [] pc \in {"restore_select", "restore_fs"} -> "restore"
      [] OTHER -> "none"

\* the gate returns hp: the caller dispatches the engine
GateReturns(cy, hp, in, failed) ==
    [cy EXCEPT !.decided = TRUE, !.hasProblems = hp, !.input = in,
               !.chanFail = failed,
               !.pc = Dispatch(variant, hp),
               !.op = OpOf(Dispatch(variant, hp))]

\* client.connect() resolved / client.close() ran
Connect(n) == n + 1
Close(n) == n - 1

\* connect, one awaited call on the collection, close, with the close as a
\* plain statement after the call (createBackup, electron restore): a
\* rejected connect opens nothing, a rejected call skips the close
ConnectCallClose(n, connected, ok) ==
    IF ~connected THEN n
    ELSE IF ok THEN Close(Connect(n))
    ELSE Connect(n)

\* the engine promise settles: ok = resolved, otherwise rejected with err.
\* The handler's locals of the gate are gone with it.
EngineEnds(c, cy, ok, err) ==
    /\ cycles' = [cycles EXCEPT ![c] =
                    [cy EXCEPT !.pc = IF ok THEN "done" ELSE "failed",
                               !.err = err,
                               !.input = NoInput, !.wrong = 0,
                               !.chanFail = FALSE, !.name = NoFile]]
    /\ alertTriggered' = GuardAfterEngine(variant, alertTriggered, ok)

\* ---- entry point --------------------------------------------------------
\* new DisasterRecoveryManager(CONFIG) and the call of startMonitoring: the
\* polling loop enters its first iteration, the electron deployment subscribes
\* to the screensaver; a throwing constructor ends the process
Start ==
    /\ proc = "starting"
    /\ \E exists \in BOOLEAN, mkdirOk \in BOOLEAN :
          IF EnsureBackupDir(exists, mkdirOk)
          THEN /\ proc' = "running"
               /\ exitCode' = exitCode
               /\ cycles' = IF Polling(variant) THEN <<NewCycle("checking")>>
                             ELSE <<>>
          ELSE /\ proc' = "exited"
               /\ exitCode' = FatalExitCode(variant)
               /\ cycles' = cycles
    /\ UNCHANGED <<openConns, idleTriggers, variant, now, lastSale, records,
                   files, alertTriggered, ssActive, dropped>>

\* ---- environment -------------------------------------------------------
\* time passes
Advance ==
    /\ now < MaxClock
    /\ now' = now + 1
    /\ UNCHANGED <<openConns, proc, exitCode, idleTriggers, variant,
                   lastSale, records, files, alertTriggered, ssActive,
                   dropped, cycles>>

\* the point of sale records a sale
NewSale ==
    /\ Polling(variant)
    /\ lastSale # now
    /\ lastSale' = now
    /\ UNCHANGED <<openConns, proc, exitCode, idleTriggers, variant, now,
                   records, files, alertTriggered, ssActive, dropped,
                   cycles>>

\* an operator marks a backup as failed, outside the daemon
OperatorMarksFailed ==
    \E i \in DOMAIN records :
        /\ records[i].status # "failed"
        /\ records' = [records EXCEPT ![i].status = "failed"]
        /\ UNCHANGED <<openConns, proc, exitCode, idleTriggers, variant, now,
                       lastSale, files, alertTriggered, ssActive, dropped,
                       cycles>>

\* ---- polling loop (container, native) ----------------------------------
\* setTimeout(resolve, CHECK_INTERVAL) elapses and the loop starts over
TimerFires ==
    /\ Polling(variant)
    /\ cycles # <<>>
    /\ Ended(Len(cycles))
    /\ Len(cycles) < MaxCycles
    /\ \E t \in (now + CHECK_INTERVAL)..MaxClock : now' = t
    /\ cycles' = Append(cycles, NewCycle("checking"))
    /\ UNCHANGED <<openConns, proc, exitCode, idleTriggers, variant,
                   lastSale, records, files, alertTriggered, ssActive,
                   dropped>>

\* a detector whose read error is taken for "no recent sales"
AfterCheckErrorMeansNoSales(ok, recent) ==
    IF ok /\ recent THEN "skipped" ELSE "dialog"

\* where the loop body goes after checkRecentSales: a throw reaches the catch
\* of startMonitoring, a true result skips the `if (!hasRecentSales)` block
AfterCheck(ok, recent) ==
    IF ~ok THEN "failed" ELSE IF recent THEN "skipped" ELSE "dialog"

\* checkRecentSales, and the `if (!hasRecentSales)` of startMonitoring
CheckRecentSales(c) ==
    /\ cycles[c].pc = "checking"
    /\ \E ok \in BOOLEAN :
          cycles' = [cycles EXCEPT ![c] =
             [@ EXCEPT !.pc = AfterCheck(ok, HasRecentSales(lastSale, now)),
                       !.err = IF ok THEN "none" ELSE "DetectorError"]]
    /\ UNCHANGED <<openConns, proc, exitCode, idleTriggers, variant, now,
                   lastSale, records, files, alertTriggered, ssActive,
                   dropped>>

\* showDialog (zenity) and the dispatch of startMonitoring
ShowDialogZenity(c) ==
    /\ cycles[c].pc = "dialog"
    /\ \E o \in ZenityOutcomes :
          cycles' = [cycles EXCEPT ![c] =
             GateReturns(@, ShowDialogSimple(o), [kind |-> o, text |-> ""],
                         o = "error")]
    /\ UNCHANGED <<openConns, proc, exitCode, idleTriggers, variant, now,
                   lastSale, records, files, alertTriggered, ssActive,
                   dropped>>

\* (variant of Triggers that reacts to every ActiveChanged event)
TriggersOnAnyEvent(active) == TRUE

\* `if (active) { this.onInactivityDetected(); }` of the ActiveChanged listener
Triggers(active) == active

\* ---- screensaver events (electron) -------------------------------------
\* the ActiveChanged listener, with onInactivityDetected up to its first await
ActiveChanged(active) ==
    /\ variant = "electron"
    /\ proc = "running"
    /\ ssActive' = active
    /\ IF ~Triggers(active)
       THEN UNCHANGED <<alertTriggered, dropped, cycles>>
       ELSE IF GuardBlocks(alertTriggered)
       THEN /\ dropped < MaxDropped
            /\ dropped' = dropped + 1
            /\ UNCHANGED <<alertTriggered, cycles>>
       ELSE /\ Len(cycles) < MaxCycles
            /\ alertTriggered' = TRUE
            /\ cycles' = Append(cycles, NewCycle("alert"))
            /\ UNCHANGED dropped
    /\ idleTriggers' =
          IF Triggers(active) /\ (\A c \in DOMAIN cycles : Ended(c))
          THEN idleTriggers + 1 ELSE idleTriggers
    /\ UNCHANGED <<openConns, proc, exitCode, variant, now, lastSale,
                   records, files>>

\* showDialog (electron): the custom alert answers, or the channel throws.
\* (A click taken by an ipcMain.once listener left over from an earlier
\* window resolves nothing and leaves the window open: a stuttering step.)
ShowCustomAlert(c) ==
    /\ cycles[c].pc = "alert"
    /\ \/ \E r \in AlertResponses :
            cycles' = [cycles EXCEPT ![c] =
               CASE AfterAlert(r) = "return_false" ->
                      GateReturns(@, FALSE, [kind |-> r, text |-> ""], FALSE)
                 [] AfterAlert(r) = "password" ->
                      [@ EXCEPT !.pc = "password", !.wrong = 0,
                                !.input = [kind |-> r, text |-> ""]]
                 [] OTHER ->
                      [@ EXCEPT !.input = [kind |-> r, text |-> ""]]]
       \/ cycles' = [cycles EXCEPT ![c] =
               GateReturns(@, ShowDialogCatch, [kind |-> "throw", text |-> ""],
                           TRUE)]
    /\ UNCHANGED <<openConns, proc, exitCode, idleTriggers, variant, now,
                   lastSale, records, files, alertTriggered, ssActive,
                   dropped>>

\* showDialog (electron): the password prompt answers, or the channel throws
ShowPasswordPrompt(c) ==
    /\ cycles[c].pc = "password"
    /\ \/ \E p \in PromptResults :
            LET in == [kind |-> IF p.isNull THEN "cancel" ELSE "submit",
                       text |-> p.text] IN
            CASE AfterPassword(p) = "return_true" ->
                   cycles' = [cycles EXCEPT ![c] = GateReturns(@, TRUE, in, FALSE)]
              [] AfterPassword(p) = "msgbox" ->
                   /\ cycles[c].wrong < MaxWrong
                   /\ cycles' = [cycles EXCEPT ![c] =
                         [@ EXCEPT !.pc = "msgbox", !.wrong = @ + 1, !.input = in]]
              [] OTHER ->
                   cycles' = [cycles EXCEPT ![c] =
                         [@ EXCEPT !.pc = "alert", !.input = in]]
       \/ cycles' = [cycles EXCEPT ![c] =
               GateReturns(@, ShowDialogCatch, [kind |-> "throw", text |-> ""],
                           TRUE)]
    /\ UNCHANGED <<openConns, proc, exitCode, idleTriggers, variant, now,
                   lastSale, records, files, alertTriggered, ssActive,
                   dropped>>

\* showDialog (electron): the "wrong password" message box is acknowledged,
\* or it throws
ShowMessageBox(c) ==
    /\ cycles[c].pc = "msgbox"
    /\ \/ cycles' = [cycles EXCEPT ![c] = [@ EXCEPT !.pc = "password"]]
       \/ cycles' = [cycles EXCEPT ![c] =
               GateReturns(@, ShowDialogCatch, [kind |-> "throw", text |-> ""],
                           TRUE)]
    /\ UNCHANGED <<openConns, proc, exitCode, idleTriggers, variant, now,
                   lastSale, records, files, alertTriggered, ssActive,
                   dropped>>

\* ---- createBackup -------------------------------------------------------
\* the execSync steps.  A dump that fails may leave a partial archive behind.
BackupDump(c) ==
    /\ cycles[c].pc = "backup_dump"
    /\ \E failAt \in {"none"} \cup StepSet(DumpSteps(variant)), partial \in BOOLEAN :
          LET name == BackupFileName(variant, now)
              onHost == IF variant = "container"
                        THEN StepDone(DumpSteps(variant), "copy", failAt)
                        ELSE failAt = "none" \/ partial
              cy == [cycles[c] EXCEPT !.name = name,
                        !.tool = IF failAt = "none" THEN "ok" ELSE "fail"]
          IN /\ partial => (variant # "container" /\ failAt = "dump")
             /\ files' = IF onHost THEN files \cup {name} ELSE files
             /\ IF AfterDump(failAt) = "failed"
                THEN EngineEnds(c, cy, FALSE, "ExternalToolError")
                ELSE /\ cycles' = [cycles EXCEPT ![c] =
                                     [cy EXCEPT !.pc = AfterDump(failAt)]]
                     /\ UNCHANGED alertTriggered
    /\ UNCHANGED <<openConns, proc, exitCode, idleTriggers, variant, now,
                   lastSale, records, ssActive, dropped>>

\* a write that replaces the document already stored under the same path
ReplaceOneByPath(recs, doc) ==
    IF \E i \in DOMAIN recs : recs[i].path = doc.path
    THEN [i \in DOMAIN recs |-> IF recs[i].path = doc.path THEN doc
                                ELSE recs[i]]
    ELSE Append(recs, doc)

\* db.collection('backups').insertOne(doc): always a new document
InsertOne(recs, doc) == Append(recs, doc)

\* connect, insertOne, close
BackupRecord(c) ==
    /\ cycles[c].pc = "backup_record"
    /\ \E ok \in BOOLEAN, connected \in BOOLEAN :
          /\ ok => connected
          /\ openConns' = ConnectCallClose(openConns, connected, ok)
          /\ records' =
               IF ok
               THEN InsertOne(records,
                      NewBackupRecord(JoinPath(HOST_BACKUP_DIR(variant),
                                               cycles[c].name), now, c))
               ELSE records
          /\ EngineEnds(c, cycles[c], ok,
                        IF ok THEN "none" ELSE "RecordStoreError")
    /\ UNCHANGED <<proc, exitCode, idleTriggers, variant, now, lastSale,
                   files, ssActive, dropped>>

\* ---- restoreFromLatestBackup, record-store resolution -------------------
\* connect, findOne, `if (!latestBackup) throw`
RestoreSelect(c) ==
    /\ cycles[c].pc = "restore_select"
    /\ \/ /\ EngineEnds(c, cycles[c], FALSE, "RecordStoreError")
          /\ \E connected \in BOOLEAN :
                openConns' = IF connected THEN Close(Connect(openConns))
                             ELSE openConns
       \/ /\ FindLatestCreated(records) = {}
          /\ EngineEnds(c, cycles[c], FALSE, "NoBackupAvailable")
          /\ openConns' = Close(Connect(openConns))
       \/ \E i \in FindLatestCreated(records) :
             /\ cycles' = [cycles EXCEPT ![c] =
                             [@ EXCEPT !.sel = i, !.pc = "restore_tool"]]
             /\ openConns' = Connect(openConns)
             /\ UNCHANGED alertTriggered
    /\ UNCHANGED <<proc, exitCode, idleTriggers, variant, now, lastSale,
                   records, files, ssActive, dropped>>

\* the execSync steps of the restore
RestoreTool(c) ==
    /\ cycles[c].pc = "restore_tool"
    /\ \E failAt \in {"none"} \cup StepSet(RestoreSteps(variant)) :
          LET cy == [cycles[c] EXCEPT
                        !.toolPath = records[cycles[c].sel].path,
                        !.tool = IF failAt = "none" THEN "ok" ELSE "fail",
                        !.dbRestored = StepDone(RestoreSteps(variant), "restore",
                                                failAt)]
          IN IF AfterRestoreTool(variant, failAt) = "failed"
             THEN /\ EngineEnds(c, cy, FALSE, "ExternalToolError")
                  /\ openConns' = Close(openConns)
             ELSE /\ cycles' = [cycles EXCEPT ![c] =
                       [cy EXCEPT !.pc = AfterRestoreTool(variant, failAt)]]
                  /\ UNCHANGED <<alertTriggered, openConns>>
    /\ UNCHANGED <<proc, exitCode, idleTriggers, variant, now, lastSale,
                   records, files, ssActive, dropped>>

\* updateOne by _id, and the close of the finally
RestoreUpdate(c) ==
    /\ cycles[c].pc = "restore_update"
    /\ openConns' = Close(openConns)
    /\ \E ok \in BOOLEAN :
          /\ records' = IF ok THEN UpdateRestoredById(records, cycles[c].sel)
                        ELSE records
          /\ EngineEnds(c, cycles[c], ok,
                        IF ok THEN "none" ELSE "RecordStoreError")
    /\ UNCHANGED <<proc, exitCode, idleTriggers, variant, now, lastSale,
                   files, ssActive, dropped>>

\* ---- restoreFromLatestBackup, directory resolution (electron) -----------
\* readdirSync, `if (backupFiles.length === 0) throw`, execSync
RestoreFs(c) ==
    /\ cycles[c].pc = "restore_fs"
    /\ IF GzFiles(files) = {}
       THEN EngineEnds(c, cycles[c], FALSE, "NoBackupAvailable")
       ELSE \E failAt \in {"none"} \cup StepSet(RestoreSteps(variant)) :
          LET cy == [cycles[c] EXCEPT
                        !.selFile = LatestFile(files),
                        !.toolPath = JoinPath(HOST_BACKUP_DIR(variant),
                                              LatestFile(files)),
                        !.tool = IF failAt = "none" THEN "ok" ELSE "fail",
                        !.dbRestored = StepDone(RestoreSteps(variant), "restore",
                                                failAt)]
          IN IF AfterRestoreTool(variant, failAt) = "failed"
             THEN EngineEnds(c, cy, FALSE, "ExternalToolError")
             ELSE /\ cycles' = [cycles EXCEPT ![c] =
                       [cy EXCEPT !.pc = AfterRestoreTool(variant, failAt)]]
                  /\ UNCHANGED alertTriggered
    /\ UNCHANGED <<openConns, proc, exitCode, idleTriggers, variant, now,
                   lastSale, records, files, ssActive, dropped>>

\* connect, updateOne by path with upsert, close
RestoreUpsert(c) ==
    /\ cycles[c].pc = "restore_upsert"
    /\ \E ok \in BOOLEAN, connected \in BOOLEAN :
          /\ ok => connected
          /\ openConns' = ConnectCallClose(openConns, connected, ok)
          /\ records' =
               IF ok
               THEN UpsertRestoredByPath(records,
                       cycles[c].toolPath, c)
               ELSE records
          /\ EngineEnds(c, cycles[c], ok,
                        IF ok THEN "none" ELSE "RecordStoreError")
    /\ UNCHANGED <<proc, exitCode, idleTriggers, variant, now, lastSale,
                   files, ssActive, dropped>>

Next ==
    \/ Start
    \/ Advance
    \/ NewSale
    \/ OperatorMarksFailed
    \/ TimerFires
    \/ \E active \in BOOLEAN : ActiveChanged(active)
    \/ \E c \in DOMAIN cycles : CheckRecentSales(c)
    \/ \E c \in DOMAIN cycles : ShowDialogZenity(c)
    \/ \E c \in DOMAIN cycles : ShowCustomAlert(c)
    \/ \E c \in DOMAIN cycles : ShowPasswordPrompt(c)
    \/ \E c \in DOMAIN cycles : ShowMessageBox(c)
    \/ \E c \in DOMAIN cycles : BackupDump(c)
    \/ \E c \in DOMAIN cycles : BackupRecord(c)
    \/ \E c \in DOMAIN cycles : RestoreSelect(c)
    \/ \E c \in DOMAIN cycles : RestoreTool(c)
    \/ \E c \in DOMAIN cycles : RestoreUpdate(c)
    \/ \E c \in DOMAIN cycles : RestoreFs(c)
    \/ \E c \in DOMAIN cycles : RestoreUpsert(c)

Spec == Init /\ [][Next]_vars

(***************************************************************************)
(* The restore taken alone: restoreFromLatestBackup entered over a store    *)
(* and a directory left by earlier runs of the deployment.                  *)
(***************************************************************************)
\* the seconds at which the earlier backups were taken
StoredSeconds == 0..(MaxStored - 1)

\* what createBackup has inserted at some time: the name carries the second
\* in which the dump began, createdAt is not before it; the status is what
\* the restore or the operator have made of it since
StoredRecords(v) ==
    UNION {{[NewBackupRecord(JoinPath(HOST_BACKUP_DIR(v),
                                      BackupFileName(v, k * TicksPerSecond)),
                             m * TicksPerSecond, 0)
               EXCEPT !.status = st] :
              m \in {n \in StoredSeconds : n >= k},
              st \in {"created", "failed", "restored"}} :
           k \in StoredSeconds}

StoredArchives(v) ==
    {BackupFileName(v, k * TicksPerSecond) : k \in StoredSeconds}

RestoreInit ==
    /\ variant \in Variants
    /\ now = MaxStored * TicksPerSecond
    /\ lastSale = NoSale
    /\ records \in UNION {[1..n -> StoredRecords(variant)] :
                           n \in 0..MaxStored}
    /\ files \in SUBSET StoredArchives(variant)
    /\ alertTriggered = (variant = "electron")
    /\ ssActive = (variant = "electron")
    /\ dropped = 0
    /\ cycles = <<GateReturns(NewCycle("dialog"), TRUE, NoInput, FALSE)>>
    /\ proc = "running"
    /\ exitCode = NoExit
    /\ idleTriggers = IF variant = "electron" THEN 1 ELSE 0
    /\ openConns = 0

RestoreNext ==
    \/ \E c \in DOMAIN cycles : RestoreSelect(c)
    \/ \E c \in DOMAIN cycles : RestoreTool(c)
    \/ \E c \in DOMAIN cycles : RestoreUpdate(c)
    \/ \E c \in DOMAIN cycles : RestoreFs(c)
    \/ \E c \in DOMAIN cycles : RestoreUpsert(c)

RestoreSpec == RestoreInit /\ [][RestoreNext]_vars

TypeOK ==
    /\ variant \in Variants
    /\ now \in 0..MaxClock
    /\ alertTriggered \in BOOLEAN
    /\ Len(cycles) <= MaxCycles
    /\ proc \in {"starting", "running", "exited"}
    /\ exitCode \in {NoExit, 0, 1}
    /\ idleTriggers \in 0..(MaxCycles + MaxDropped)
    /\ openConns \in 0..MaxCycles
    /\ \A i \in DOMAIN records :
          records[i].status \in {"created", "failed", "restored"}

(***************************************************************************)
(* Properties.                                                             *)
(***************************************************************************)
Cycles == DOMAIN cycles
Confirming(c) == cycles[c].pc \in {"dialog", "alert", "password", "msgbox"}
Acting(c) ==
    cycles[c].pc \in {"backup_dump", "backup_record", "restore_select",
                      "restore_tool", "restore_update", "restore_fs",
                      "restore_upsert"}
Idle == \A c \in Cycles : Ended(c)
HasCreated(recs) == \E i \in DOMAIN recs : recs[i].status = "created"
\* cycle c takes a step of its own
Steps(c) == cycles'[c] # cycles[c]
\* cycle c ends in this step
EndsNow(c) == ~Ended(c) /\ cycles'[c].pc \in {"done", "failed", "skipped"}
RecordStore == Polling(variant)

\* C1: at most one confirm+backup/restore cycle is in flight at any time: no
\* two cycles are in Confirming or Acting together
C1_SingleFlight ==
    Cardinality({c \in Cycles : Confirming(c) \/ Acting(c)}) <= 1

\* a trigger arrived and was dropped while the cycle in flight is Acting
C1_Witness ==
    /\ dropped > 0
    /\ \E c \in Cycles : Acting(c)

\* C2 (as claimed): whenever the orchestrator is back in Idle the reentrancy
\* guard is false, whether the engine succeeded or threw
C2_GuardReleasedInIdle ==
    Idle => ~alertTriggered

\* C3: under record-store resolution the restore selects, and hands to the
\* tool, the record with the maximum createdAt among the records whose status
\* is 'created' at the time of selection
C3_RestoreSelectsLatestCreated ==
    [][\A c \in Cycles :
         /\ (cycles[c].pc = "restore_select" /\ cycles'[c].pc = "restore_tool") =>
               LET i == cycles'[c].sel IN
               /\ i \in DOMAIN records
               /\ records[i].status = "created"
               /\ \A j \in DOMAIN records :
                     records[j].status = "created" =>
                        records[j].createdAt <= records[i].createdAt
         /\ (cycles[c].pc = "restore_tool" /\ Steps(c)) =>
               cycles'[c].toolPath = records[cycles[c].sel].path]_vars

\* the restore is about to run on a record while a newer record is 'failed'
C3_Witness ==
    \E c \in Cycles :
        /\ cycles[c].pc = "restore_update"
        /\ records[cycles[c].sel].status = "created"
        /\ \E j \in DOMAIN records :
              /\ records[j].status = "failed"
              /\ records[j].createdAt > records[cycles[c].sel].createdAt

\* C4 (as claimed): a restore requested while no record has status 'created'
\* (and the store can be read) fails with the no-backup-available error,
\* without invoking the restore tool and without changing the records
C4_NoEligibleBackupFails ==
    [][\A c \in Cycles :
         (/\ cycles[c].pc \in {"restore_select", "restore_fs"}
          /\ Steps(c)
          /\ ~HasCreated(records)
          /\ cycles'[c].err # "RecordStoreError") =>
            /\ cycles'[c].pc = "failed"
            /\ cycles'[c].err = "NoBackupAvailable"
            /\ cycles'[c].tool = "na"
            /\ records' = records]_vars

\* the record (if any) that belongs to the archive handed to the tool by c
SelectedRestored(recs, cy) ==
    IF RecordStore
    THEN cy.sel \in DOMAIN recs /\ recs[cy.sel].status = "restored"
    ELSE \E i \in DOMAIN recs :
            recs[i].path = cy.toolPath /\ recs[i].status = "restored"

C6_FailedDumpWritesNoRecord ==
    /\ [](\A c \in Cycles :
            (cycles[c].op = "backup" /\ cycles[c].tool = "fail") =>
               /\ cycles[c].pc = "failed"
               /\ cycles[c].err = "ExternalToolError"
               /\ \A i \in DOMAIN records : records[i].by # c)
    /\ [][\A c \in Cycles :
            (cycles[c].pc = "backup_dump" /\ cycles'[c].tool = "fail") =>
               records' = records]_vars

\* the container's cleanup step failed: the dump is on the host, the call
\* has failed and the store holds no record
C6_Witness ==
    /\ variant = "container"
    /\ files # {}
    /\ records = <<>>
    /\ \E c \in Cycles :
          /\ cycles[c].op = "backup" /\ cycles[c].tool = "fail"
          /\ cycles[c].pc = "failed"

C8_SecretRetryLoop ==
    [][\A c \in Cycles :
         /\ (cycles[c].pc = "password" /\ Steps(c)) =>
               LET in == cycles'[c].input IN
               /\ (in.kind = "submit" /\ in.text # "yosi") =>
                     /\ cycles'[c].pc = "msgbox"
                     /\ ~cycles'[c].decided /\ cycles'[c].op = "none"
               /\ (in.kind = "submit" /\ in.text = "yosi") =>
                     /\ cycles'[c].decided /\ cycles'[c].hasProblems
                     /\ cycles'[c].op = "restore"
               /\ in.kind = "cancel" =>
                     /\ cycles'[c].pc = "alert"
                     /\ ~cycles'[c].decided /\ cycles'[c].op = "none"
         /\ (cycles[c].pc = "msgbox" /\ Steps(c)
                /\ cycles'[c].input.kind # "throw") =>
               /\ cycles'[c].pc = "password"
               /\ ~cycles'[c].decided]_vars

\* MaxWrong wrong secrets in a row were followed by the correct one and the
\* gate has returned true
C8_Witness ==
    \E c \in Cycles :
        /\ cycles[c].wrong = MaxWrong
        /\ cycles[c].input = [kind |-> "submit", text |-> "yosi"]
        /\ cycles[c].decided /\ cycles[c].hasProblems

\* C9 (as claimed): when the confirmation channel fails the gate resolves to
\* hasProblem = true and the cycle dispatches a restore, never a backup
C9_ChannelFailureMeansRestore ==
    \A c \in Cycles :
        cycles[c].chanFail =>
           /\ cycles[c].decided /\ cycles[c].hasProblems
           /\ cycles[c].op = "restore"

\* C10 (as claimed): in the simple gate 'no problem' returns false and each
\* of 'has problem' and dismissing the dialog returns true
C10_SimpleGateMapping ==
    \A c \in Cycles :
        (Polling(variant) /\ cycles[c].decided
            /\ cycles[c].input.kind \in {"yes", "no", "dismiss"}) =>
           (cycles[c].hasProblems <=> cycles[c].input.kind # "no")

\* C11: a failed detector read skips the cycle: the cycle ends failed without
\* consulting the gate and without dispatching an engine, the store and the
\* archives are unchanged, and the next check starts at the next timer tick
C11_DetectorErrorSkipsCycle ==
    /\ [](\A c \in Cycles :
            cycles[c].err = "DetectorError" =>
               /\ cycles[c].pc = "failed"
               /\ ~cycles[c].decided
               /\ cycles[c].op = "none"
               /\ cycles[c].input = NoInput
               /\ \A i \in DOMAIN records : records[i].by # c)
    /\ [][\A c \in Cycles :
            /\ (cycles[c].pc = "checking" /\ cycles'[c].err = "DetectorError")
                  => (records' = records /\ files' = files)
            /\ (cycles[c].err = "DetectorError" /\ c = Len(cycles)
                    /\ Len(cycles') > Len(cycles))
                  => /\ now' >= now + CHECK_INTERVAL
                     /\ cycles'[c + 1].pc = "checking"]_vars

C11_Witness ==
    \E c \in Cycles :
        /\ cycles[c].err = "DetectorError"
        /\ c + 1 \in Cycles
        /\ cycles[c + 1].pc = "dialog"

\* the record inserted by cycle c is still 'created'
CreatedBy(recs, c) ==
    {i \in DOMAIN recs : recs[i].by = c /\ recs[i].status = "created"}

C13_ErrorsNeverStopMonitoring ==
    /\ []((\E c \in Cycles : cycles[c].pc = "failed") => proc = "running")
    /\ [][(Idle /\ (\E c \in Cycles : cycles[c].pc = "failed"))
            => dropped' = dropped]_vars

\* C14: a trigger that finds the guard held is dropped and changes nothing
\* else; a cycle starts only in the step of a trigger that found the guard
\* free with no cycle in flight, one cycle per such trigger, so the cycles
\* started never outnumber the triggers that arrived in Idle
C14_BlockedTriggersAreDropped ==
    /\ [](variant = "electron" => Len(cycles) <= idleTriggers)
    /\ [][variant = "electron" =>
            /\ dropped' # dropped =>
                  /\ alertTriggered /\ ssActive'
                  /\ cycles' = cycles
                  /\ alertTriggered' = alertTriggered
                  /\ records' = records /\ files' = files
            /\ Len(cycles') # Len(cycles) =>
                  /\ ~alertTriggered /\ Idle /\ ssActive'
                  /\ Len(cycles') = Len(cycles) + 1
                  /\ idleTriggers' = idleTriggers + 1
                  /\ dropped' = dropped]_vars

\* a trigger was dropped during a cycle and a later trigger started the next
C14_Witness ==
    /\ variant = "electron"
    /\ dropped = 1
    /\ Len(cycles) >= 2
    /\ idleTriggers = Len(cycles)

\* C15 (as claimed): under both resolution policies the restore tool is run
\* only on an artifact whose record has status 'created' when the artifact
\* is selected
C15_ToolRunsOnCreatedOnly ==
    [][\A c \in Cycles :
         /\ (cycles[c].pc = "restore_select"
                 /\ cycles'[c].pc = "restore_tool") =>
               records[cycles'[c].sel].status = "created"
         /\ (cycles[c].pc = "restore_fs" /\ cycles'[c].tool # "na") =>
               \E i \in DOMAIN records :
                   /\ records[i].path = cycles'[c].toolPath
                   /\ records[i].status = "created"]_vars

\* C16 (as claimed): no two records of the store have the same path
C16_PathsUnique ==
    \A i, j \in DOMAIN records :
        records[i].path = records[j].path => i = j

BackupActed(c) ==
    \/ cycles[c].pc \in {"backup_dump", "backup_record"}
    \/ cycles[c].name # NoFile
    \/ \E i \in DOMAIN records :
          records[i].by = c /\ records[i].type = "emergency"
RestoreActed(c) ==
    \/ cycles[c].pc \in {"restore_select", "restore_tool", "restore_update",
                          "restore_fs", "restore_upsert"}
    \/ cycles[c].sel # 0 \/ cycles[c].selFile # NoFile
    \/ cycles[c].toolPath # NoPath \/ cycles[c].dbRestored
    \/ \E i \in DOMAIN records :
          records[i].by = c /\ records[i].type # "emergency"

\* C18: a cycle whose gate returned false runs createBackup and never the
\* restore, one whose gate returned true runs the restore and never
\* createBackup, and a cycle without a gate decision (recent sales among
\* them) consults no gate, runs no engine and leaves the store unchanged
C18_OneEnginePerDecision ==
    /\ [](\A c \in Cycles :
            /\ cycles[c].decided =>
                  cycles[c].op = IF cycles[c].hasProblems THEN "restore"
                                 ELSE "backup"
            /\ BackupActed(c) =>
                  (cycles[c].decided /\ ~cycles[c].hasProblems)
            /\ RestoreActed(c) =>
                  (cycles[c].decided /\ cycles[c].hasProblems)
            /\ ~cycles[c].decided =>
                  /\ cycles[c].op = "none"
                  /\ cycles[c].tool = "na"
                  /\ cycles[c].pc # "done"
            /\ cycles[c].pc = "skipped" =>
                  (~cycles[c].decided /\ cycles[c].input = NoInput))
    /\ [][\A c \in Cycles :
            (cycles[c].pc = "checking" /\ cycles'[c].pc = "skipped")
               => /\ HasRecentSales(lastSale, now)
                  /\ records' = records /\ files' = files]_vars

\* one tick skipped for recent sales, a later one backed up, the last restored
C18_Witness ==
    \E c, d, e \in Cycles :
        /\ cycles[c].pc = "skipped"
        /\ cycles[d].pc = "done" /\ cycles[d].op = "backup"
        /\ cycles[e].pc = "done" /\ cycles[e].op = "restore"

\* C19: the authorized gate returns hasProblem = true only in the step in
\* which the correct secret is submitted to the password prompt, a prompt
\* that is reached only by answering 'has-problem' in the same invocation,
\* or in a step in which the channel fails; a wrong secret, a cancelled
\* prompt and a closed main question never make it return true
C19_TrueNeedsSecretOrFailure ==
    [][variant = "electron" =>
        \A c \in Cycles :
          /\ (~cycles[c].decided /\ cycles'[c].decided
                  /\ cycles'[c].hasProblems) =>
                \/ /\ cycles[c].pc = "password"
                   /\ cycles'[c].input = [kind |-> "submit", text |-> Secret]
                \/ cycles'[c].chanFail
          /\ (cycles[c].pc # "password" /\ cycles'[c].pc = "password") =>
                \/ cycles[c].pc = "alert"
                      /\ cycles'[c].input.kind = "has-problem"
                \/ cycles[c].pc = "msgbox"
          /\ (cycles[c].pc # "msgbox" /\ cycles'[c].pc = "msgbox") =>
                cycles[c].pc = "password"
          /\ (Steps(c) /\ ~cycles[c].decided
                  /\ \/ cycles'[c].input.kind \in {"cancel", "closed"}
                     \/ /\ cycles'[c].input.kind = "submit"
                        /\ cycles'[c].input.text # Secret) =>
                ~cycles'[c].decided]_vars

\* a wrong secret, then the correct one: the gate has returned true
C19_Witness ==
    /\ variant = "electron"
    /\ \E c \in Cycles :
          /\ cycles[c].decided /\ cycles[c].hasProblems
          /\ ~cycles[c].chanFail
          /\ cycles[c].input = [kind |-> "submit", text |-> Secret]
          /\ cycles[c].wrong = 1

\* C20 (as claimed): when the backup directory cannot be created at startup
\* the process exits with a non-zero status and no cycle is ever started
C20_StartupFailureIsFatal ==
    proc = "exited" => (exitCode # 0 /\ exitCode # NoExit /\ cycles = <<>>)

\* C21: in the electron deployment an ActiveChanged event with active = false
\* starts no cycle, shows no dialog, runs no engine and leaves the guard as it
\* is; a cycle starts only in the step of an event with active = true
C21_OnlyActiveTrueTriggers ==
    [][variant = "electron" =>
         /\ (ssActive /\ ~ssActive') =>
               /\ cycles' = cycles
               /\ alertTriggered' = alertTriggered
               /\ records' = records /\ files' = files
               /\ dropped' = dropped /\ idleTriggers' = idleTriggers
         /\ (Len(cycles') # Len(cycles) \/ dropped' # dropped) => ssActive']_vars

\* the screensaver went off while the question of a cycle was still open
C21_Witness ==
    /\ variant = "electron"
    /\ ~ssActive
    /\ alertTriggered
    /\ \E c \in Cycles : cycles[c].pc = "alert"

\* C22 (as claimed): no record-store connection is open while no cycle is in
\* flight: every operation has closed what it opened when it returns or throws
C22_NoConnectionOpenInIdle ==
    Idle => openConns = 0

\* the paths of the documents of the backups collection
Paths(recs) == {recs[i].path : i \in DOMAIN recs}

\* C23 (as claimed): no step of a restore, successful or not, inserts a
\* record: the store holds the same number of records with the same paths
\* after the step as before it
C23_RestoreNeverInserts ==
    [][\A c \in Cycles :
         (cycles[c].op = "restore" /\ Steps(c)) =>
            /\ Len(records') = Len(records)
            /\ Paths(records') = Paths(records)]_vars

\* C24 (as claimed): when several 'created' records share the greatest
\* createdAt the restore selects the one inserted last
C24_TieSelectsLastInserted ==
    [][\A c \in Cycles :
         (cycles[c].pc = "restore_select" /\ cycles'[c].pc = "restore_tool") =>
            \A j \in DOMAIN records :
               (records[j].status = "created"
                   /\ records[j].createdAt
                        = records[cycles'[c].sel].createdAt)
                 => j <= cycles'[c].sel]_vars

\* the records that a step changes
Changed == {i \in DOMAIN records : records'[i] # records[i]}

\* C25 (as claimed): a restore that completes changes exactly one record, the
\* selected one, and only its status; a createBackup that completes adds
\* exactly one record; every other record keeps all its fields
C25_FrameEffects ==
    [][\A c \in Cycles :
         /\ (EndsNow(c) /\ cycles'[c].pc = "done"
                 /\ cycles[c].op = "restore") =>
               /\ Len(records') = Len(records)
               /\ Cardinality(Changed) = 1
               /\ \A i \in Changed :
                     /\ records'[i] = [records[i] EXCEPT !.status = "restored"]
                     /\ records[i].path = cycles'[c].toolPath
                     /\ RecordStore => i = cycles[c].sel
         /\ (EndsNow(c) /\ cycles'[c].pc = "done"
                 /\ cycles[c].op = "backup") =>
               /\ Len(records') = Len(records) + 1
               /\ \A i \in DOMAIN records : records'[i] = records[i]]_vars

\* every archive of the directory has a 'created' record and every 'created'
\* record has its archive in the directory
StoreMatchesDirectory ==
    /\ \A f \in GzFiles(files) :
          \E i \in DOMAIN records :
             /\ records[i].status = "created"
             /\ records[i].path = JoinPath(HOST_BACKUP_DIR(variant), f)
    /\ \A i \in DOMAIN records :
          records[i].status = "created" =>
             \E f \in GzFiles(files) :
                records[i].path = JoinPath(HOST_BACKUP_DIR(variant), f)

====
